---------------------------- MODULE Spec2Model ----------------------------
(***************************************************************************)
(* colab-engine: memory-mapped content sources, the in-memory repository   *)
(* of code files and the code-file use cases.                              *)
(*                                                                         *)
(* Text is a sequence of Unicode code points; a file holds bytes.  A Rust  *)
(* String is converted to bytes by UTF-8 encoding and bytes are read back  *)
(* with String::from_utf8_lossy.  A file is an inode reached through a     *)
(* directory entry; a mapping refers to the inode and keeps the length the *)
(* file had when it was mapped.                                            *)
(*                                                                         *)
(* Six specifications share the state:                                      *)
(*   SpecSource  the MmapFileSystemSource API on one source handle,         *)
(*   SpecRepo    the InMemoryCodeFileRepository API called directly,       *)
(*   Spec        the CodeFileUsecasesImpl API,                             *)
(*   SpecLock    threads inside the methods of one repository,             *)
(*   SpecConc    threads that work on one entity through their own copies, *)
(*   SpecDraft   the chunked draft entity of domain/code_file.rs.          *)
(* A panic (or a SIGBUS on a mapping) ends the run of the calling program. *)
(***************************************************************************)
EXTENDS Integers, Sequences, FiniteSets, TLC

VARIABLES dir, inodes, srcs, storage, nextId, written, last, lock, callers, draft

vars == <<dir, inodes, srcs, storage, nextId, written, last, lock, callers, draft>>

(***************************************************************************)
(* Bounds.                                                                 *)
(***************************************************************************)
MaxLen == 1        \* longest text (in characters) a file is written with
MaxIno == 2        \* inodes of the modelled file system
MaxIds == 2        \* identifiers Uuid::new_v4 hands out / callers use
MaxArg == 2        \* largest start / end index a caller passes
MaxDraftLen == 2   \* longest text (in characters) given to the chunked draft

Names   == {"f1", "f2"}
Handles == {1}
Inos    == 1..MaxIno
Uuids   == 1..MaxIds
NoIno   == 0

\* 'a' (one byte in UTF-8) and e-acute U+00E9 (two bytes in UTF-8)
Chars == {97, 233}
REPLACEMENT_CHARACTER == 65533

RECURSIVE SeqsUpTo(_, _)
SeqsUpTo(S, n) ==
    IF n = 0 THEN {<<>>}
    ELSE LET shorter == SeqsUpTo(S, n - 1)
         IN  shorter \cup {Append(t, x) : t \in {u \in shorter : Len(u) = n - 1}, x \in S}

Texts == SeqsUpTo(Chars, MaxLen)
Args  == 0..MaxArg

(***************************************************************************)
(* UTF-8.                                                                  *)
(***************************************************************************)
char_encode_utf8(c) ==
    IF c < 128 THEN <<c>>
    ELSE IF c < 2048 THEN <<192 + (c \div 64), 128 + (c % 64)>>
    ELSE <<224 + (c \div 4096), 128 + ((c \div 64) % 64), 128 + (c % 64)>>

RECURSIVE as_bytes(_)
as_bytes(s) ==
    IF s = <<>> THEN <<>> ELSE char_encode_utf8(Head(s)) \o as_bytes(Tail(s))

\* String::len is the length in bytes
String_len(s) == Len(as_bytes(s))

IsContinuation(b) == b >= 128 /\ b <= 191

\* Lossy decoding: every maximal ill-formed subpart becomes U+FFFD.  Lead
\* bytes of four-byte sequences do not arise (all code points are below
\* U+10000) and are treated as ill-formed.
RECURSIVE from_utf8_lossy(_)
from_utf8_lossy(b) ==
    IF b = <<>> THEN <<>>
    ELSE
      LET b0 == b[1]
          n  == Len(b)
      IN
      IF b0 < 128 THEN <<b0>> \o from_utf8_lossy(Tail(b))
      ELSE IF b0 >= 194 /\ b0 <= 223 THEN
        IF n >= 2 /\ IsContinuation(b[2])
        THEN <<(b0 - 192) * 64 + (b[2] - 128)>> \o from_utf8_lossy(SubSeq(b, 3, n))
        ELSE <<REPLACEMENT_CHARACTER>> \o from_utf8_lossy(Tail(b))
      ELSE IF b0 >= 224 /\ b0 <= 239 THEN
        LET lo == IF b0 = 224 THEN 160 ELSE 128
            hi == IF b0 = 237 THEN 159 ELSE 191
        IN
        IF n >= 2 /\ b[2] >= lo /\ b[2] <= hi
        THEN IF n >= 3 /\ IsContinuation(b[3])
             THEN <<(b0 - 224) * 4096 + (b[2] - 128) * 64 + (b[3] - 128)>>
                      \o from_utf8_lossy(SubSeq(b, 4, n))
             ELSE <<REPLACEMENT_CHARACTER>> \o from_utf8_lossy(SubSeq(b, 3, n))
        ELSE <<REPLACEMENT_CHARACTER>> \o from_utf8_lossy(Tail(b))
      ELSE <<REPLACEMENT_CHARACTER>> \o from_utf8_lossy(Tail(b))

(***************************************************************************)
(* The file system: directory entries, inodes and mappings.                *)
(***************************************************************************)
\* format!("/tmp/{}", request.name)
PathOf(name) == <<"tmp", name>>
Paths == {PathOf(n) : n \in Names}

NoMmap == [some |-> FALSE, ino |-> NoIno, len |-> 0]

\* inodes that a directory entry or a live mapping refers to
Pinned ==
    {dir[p] : p \in Paths}
        \cup {srcs[h].mmap.ino : h \in Handles}
        \cup {storage[k].source.mmap.ino : k \in DOMAIN storage}

FreeInos == Inos \ Pinned

\* An inode that no directory entry and no mapping refers to any more is
\* released by the kernel; it is kept here with no bytes.
Gc(d, ino, sr, st) ==
    LET used == {d[p] : p \in Paths}
                    \cup {sr[h].mmap.ino : h \in Handles}
                    \cup {st[k].source.mmap.ino : k \in DOMAIN st}
    IN  [i \in Inos |-> IF i \in used THEN ino[i] ELSE <<>>]

File_exists(fs, path) == fs.dir[path] # NoIno

\* OpenOptions write + create + truncate, then write_all
fs_write(fs, path, bytes) ==
    IF File_exists(fs, path)
    THEN [dir |-> fs.dir, inodes |-> [fs.inodes EXCEPT ![fs.dir[path]] = bytes]]
    ELSE LET i == CHOOSE f \in FreeInos : \A g \in FreeInos : f <= g
         IN  [dir |-> [fs.dir EXCEPT ![path] = i],
              inodes |-> [fs.inodes EXCEPT ![i] = bytes]]

\* fs_write needs a free inode when it has to create the file
CanWrite(fs, path) == File_exists(fs, path) \/ FreeInos # {}

\* std::fs::remove_file
fs_remove_file(fs, path) ==
    IF File_exists(fs, path)
    THEN [ok |-> TRUE, fs |-> [dir |-> [fs.dir EXCEPT ![path] = NoIno], inodes |-> fs.inodes]]
    ELSE [ok |-> FALSE, fs |-> fs]

\* File::open followed by Mmap::map: the mapping has the file's current length
Mmap_map(fs, path) ==
    [some |-> TRUE, ino |-> fs.dir[path], len |-> Len(fs.inodes[fs.dir[path]])]

RECURSIVE Zeros(_)
Zeros(n) == IF n <= 0 THEN <<>> ELSE <<0>> \o Zeros(n - 1)

\* Reading the bytes [0, len) of a mapping.  The pages of the mapping show the
\* inode as it is now.  When the file has shrunk since it was mapped, the rest
\* of its last page reads as zero bytes and a page wholly past the end of the
\* file raises SIGBUS; all modelled files are shorter than one page, so the
\* first page exists exactly when the file is not empty.
Mmap_deref(fs, mmap) ==
    LET data == fs.inodes[mmap.ino]
    IN  IF mmap.len <= Len(data) THEN [ok |-> TRUE, bytes |-> SubSeq(data, 1, mmap.len)]
        ELSE IF Len(data) = 0 THEN [ok |-> FALSE, bytes |-> <<>>]
        ELSE [ok |-> TRUE, bytes |-> data \o Zeros(mmap.len - Len(data))]

(***************************************************************************)
(* MmapFileSystemSource                                                    *)
(***************************************************************************)
Source(path, mmap) == [path |-> path, mmap |-> mmap]

\* MmapFileSystemSource::new
MmapFileSystemSource_new(fs, path) ==
    IF File_exists(fs, path)
    THEN [ok |-> TRUE, src |-> Source(path, Mmap_map(fs, path))]
    ELSE [ok |-> FALSE, src |-> Source(path, NoMmap)]

\* impl Clone: a mapped source is opened again, and that is expected to work
MmapFileSystemSource_clone(fs, src) ==
    IF src.mmap.some
    THEN LET r == MmapFileSystemSource_new(fs, src.path)
         IN  [res |-> IF r.ok THEN "Ok" ELSE "panic", src |-> r.src]
    ELSE [res |-> "Ok", src |-> Source(src.path, NoMmap)]

\* get_content: the whole mapping, decoded
get_content(fs, src) ==
    IF src.mmap.some
    THEN LET r == Mmap_deref(fs, src.mmap)
         IN  IF r.ok THEN [res |-> "Ok", text |-> from_utf8_lossy(r.bytes)]
             ELSE [res |-> "sigbus", text |-> <<>>]
    ELSE [res |-> "Ok", text |-> <<>>]

\* get_slice that checks the range before it looks for the mapping
get_slice_range_first(fs, src, start, end) ==
    LET len == IF src.mmap.some THEN src.mmap.len ELSE 0
    IN  IF start > end \/ end > len THEN [res |-> "panic", text |-> <<>>]
        ELSE IF ~src.mmap.some \/ start = end THEN [res |-> "Ok", text |-> <<>>]
        ELSE LET r == Mmap_deref(fs, src.mmap)
             IN  IF r.ok
                 THEN [res |-> "Ok", text |-> from_utf8_lossy(SubSeq(r.bytes, start + 1, end))]
                 ELSE [res |-> "sigbus", text |-> <<>>]

\* get_slice: &mmap[start..end] indexes the bytes of the mapping and panics
\* on start > end or end > mmap.len()
get_slice(fs, src, start, end) ==
    IF src.mmap.some
    THEN IF start > end \/ end > src.mmap.len THEN [res |-> "panic", text |-> <<>>]
         ELSE IF start = end THEN [res |-> "Ok", text |-> <<>>]
         ELSE LET r == Mmap_deref(fs, src.mmap)
              IN  IF r.ok
                  THEN [res |-> "Ok", text |-> from_utf8_lossy(SubSeq(r.bytes, start + 1, end))]
                  ELSE [res |-> "sigbus", text |-> <<>>]
    ELSE [res |-> "Ok", text |-> <<>>]

\* Vec::splice(start..end, new): panics on start > end or end > len
Vec_splice(chars, start, end, new) ==
    IF start > end \/ end > Len(chars) THEN [ok |-> FALSE, chars |-> chars]
    ELSE [ok |-> TRUE,
          chars |-> SubSeq(chars, 1, start) \o new \o SubSeq(chars, end + 1, Len(chars))]

\* set_content that writes the file and keeps the mapping it had
set_content_no_remap(fs, src, content) ==
    LET fs1 == fs_write(fs, src.path, as_bytes(content))
    IN  [res |-> "Ok", fs |-> fs1, src |-> src]

\* set_content: write the file, open it and map it again
set_content(fs, src, content) ==
    LET fs1 == fs_write(fs, src.path, as_bytes(content))
    IN  [res |-> "Ok", fs |-> fs1, src |-> Source(src.path, Mmap_map(fs1, src.path))]

\* set_slice that splices the bytes of the mapping instead of the characters
set_slice_bytes(fs, src, start, end, content) ==
    LET cur == get_content(fs, src)
        sp  == Vec_splice(as_bytes(cur.text), start, end, as_bytes(content))
    IN  IF cur.res # "Ok" THEN [res |-> cur.res, fs |-> fs, src |-> src]
        ELSE IF ~sp.ok THEN [res |-> "panic", fs |-> fs, src |-> src]
        ELSE set_content(fs, src, from_utf8_lossy(sp.chars))

\* set_slice: splice the characters of get_content(), then set_content
set_slice(fs, src, start, end, content) ==
    LET cur == get_content(fs, src)
        sp  == Vec_splice(cur.text, start, end, content)
    IN  IF cur.res # "Ok" THEN [res |-> cur.res, fs |-> fs, src |-> src]
        ELSE IF ~sp.ok THEN [res |-> "panic", fs |-> fs, src |-> src]
        ELSE set_content(fs, src, sp.chars)

\* the text set_slice writes stays within the bound of the model
SpliceWithinBound(fs, src, start, end, content) ==
    LET sp == Vec_splice(get_content(fs, src).text, start, end, content)
    IN  sp.ok => Len(sp.chars) <= MaxLen

\* create_file that leaves a file that is already there as it is
create_file_if_absent(fs, src) ==
    [res |-> "Ok",
     fs  |-> IF File_exists(fs, src.path) THEN fs ELSE fs_write(fs, src.path, <<>>)]

\* create_file: File::create opens with create + truncate
create_file(fs, src) == [res |-> "Ok", fs |-> fs_write(fs, src.path, <<>>)]

\* delete_file that reports success when there is no file to remove
delete_file_lenient(fs, src) ==
    [res |-> "Ok", fs |-> fs_remove_file(fs, src.path).fs]

\* delete_file
delete_file(fs, src) ==
    LET r == fs_remove_file(fs, src.path)
    IN  [res |-> IF r.ok THEN "Ok" ELSE "IoError", fs |-> r.fs]


(***************************************************************************)
(* Results of calls.  `last` records the call that was made last, with its *)
(* arguments and what it returned.                                         *)
(***************************************************************************)
NoPath == <<"tmp", "">>
NoFile == [id |-> 0, name |-> "", source |-> Source(NoPath, NoMmap)]

\* Uuid::to_string
Uuid_to_string(id) == <<"uuid", id>>

\* present: whether the id a repository call names was in the map at the call
NoLast ==
    [op |-> "init", res |-> "Ok", err |-> <<>>, id |-> 0, name |-> "",
     text |-> <<>>, start_index |-> 0, end_index |-> 0, file |-> NoFile,
     listed |-> <<>>, present |-> FALSE]

\* a panic unwinds the caller and SIGBUS kills the process
Running == last.res \notin {"panic", "sigbus"}

Fs == [dir |-> dir, inodes |-> inodes]

EmptyStorage == [k \in {} |-> NoFile]

\* RwLock: the caller holding the write guard (0: none) and those holding a
\* read guard
NoLock == [writer |-> 0, readers |-> {}]

\* the threads that call the repository
Callers == {1, 2}

\* a caller: where it is in its call, the entity it holds, the content its
\* last set_slice produced, and how far it is in find_by_id / set_slice / update
IdleCaller == [pc |-> "idle", file |-> NoFile, buf |-> <<>>, phase |-> "none"]

NoCallers == [c \in Callers |-> IdleCaller]

\* callers and lock are not used outside SpecConc
\* the chunked draft: nothing built yet
NoPart == [some |-> FALSE, hash |-> <<>>, content |-> <<>>]

NoChunkedFile == [some |-> FALSE, name |-> "", content |-> <<>>]

Slots == {1, 2}

NoDraft ==
    [op |-> "none", res |-> "Ok", content |-> <<>>, chunk_len |-> 0,
     file |-> NoChunkedFile, parts |-> [i \in Slots |-> NoPart], merged |-> NoPart]

Sequential == UNCHANGED <<lock, callers, draft>>

(***************************************************************************)
(* SpecSource: calls on source handles.                                    *)
(***************************************************************************)
\* the file the source handle and the tests work on
SrcPaths == {PathOf("f1")}

InitSource ==
    /\ dir = [p \in Paths |-> NoIno]
    /\ inodes = [i \in Inos |-> <<>>]
    /\ srcs \in [Handles -> {Source(p, NoMmap) : p \in SrcPaths}]
    /\ storage = EmptyStorage
    /\ nextId = 1
    /\ written = EmptyStorage
    /\ last = NoLast
    /\ lock = NoLock
    /\ callers = NoCallers
    /\ draft = NoDraft

UnchangedRepo == UNCHANGED <<storage, nextId, written, lock, callers, draft>>

\* let h = MmapFileSystemSource::new(path)
SrcNew(h, path) ==
    /\ Running
    /\ LET r == MmapFileSystemSource_new(Fs, path)
           sr == IF r.ok THEN [srcs EXCEPT ![h] = r.src] ELSE srcs
       IN  /\ srcs' = sr
           /\ inodes' = Gc(dir, inodes, sr, storage)
           /\ last' = [NoLast EXCEPT !.op = "new", !.res = IF r.ok THEN "Ok" ELSE "IoError"]
    /\ UNCHANGED dir
    /\ UnchangedRepo

\* let h2 = h.clone()
SrcClone(h, h2) ==
    /\ Running
    /\ LET r == MmapFileSystemSource_clone(Fs, srcs[h])
           sr == IF r.res = "Ok" THEN [srcs EXCEPT ![h2] = r.src] ELSE srcs
       IN  /\ srcs' = sr
           /\ inodes' = Gc(dir, inodes, sr, storage)
           /\ last' = [NoLast EXCEPT !.op = "clone", !.res = r.res]
    /\ UNCHANGED dir
    /\ UnchangedRepo

SrcGetContent(h) ==
    /\ Running
    /\ LET r == get_content(Fs, srcs[h])
       IN  last' = [NoLast EXCEPT !.op = "get_content", !.res = r.res,
                                  !.text = r.text]
    /\ UNCHANGED <<dir, inodes, srcs>>
    /\ UnchangedRepo

SrcGetSlice(h, start, end) ==
    /\ Running
    /\ LET r == get_slice(Fs, srcs[h], start, end)
       IN  last' = [NoLast EXCEPT !.op = "get_slice", !.res = r.res, !.text = r.text]
    /\ UNCHANGED <<dir, inodes, srcs>>
    /\ UnchangedRepo

SrcSetContent(h, content) ==
    /\ Running
    /\ CanWrite(Fs, srcs[h].path)
    /\ LET r == set_content(Fs, srcs[h], content)
           sr == [srcs EXCEPT ![h] = r.src]
       IN  /\ srcs' = sr
           /\ dir' = r.fs.dir
           /\ inodes' = Gc(r.fs.dir, r.fs.inodes, sr, storage)
           /\ last' = [NoLast EXCEPT !.op = "set_content", !.res = r.res]
    /\ UnchangedRepo

SrcSetSlice(h, start, end, content) ==
    /\ Running
    /\ CanWrite(Fs, srcs[h].path)
    /\ SpliceWithinBound(Fs, srcs[h], start, end, content)
    /\ LET r == set_slice(Fs, srcs[h], start, end, content)
           sr == [srcs EXCEPT ![h] = r.src]
       IN  /\ srcs' = sr
           /\ dir' = r.fs.dir
           /\ inodes' = Gc(r.fs.dir, r.fs.inodes, sr, storage)
           /\ last' = [NoLast EXCEPT !.op = "set_slice", !.res = r.res]
    /\ UnchangedRepo

SrcCreateFile(h) ==
    /\ Running
    /\ CanWrite(Fs, srcs[h].path)
    /\ LET r == create_file(Fs, srcs[h])
       IN  /\ dir' = r.fs.dir
           /\ inodes' = Gc(r.fs.dir, r.fs.inodes, srcs, storage)
           /\ last' = [NoLast EXCEPT !.op = "create_file", !.res = r.res]
    /\ UNCHANGED srcs
    /\ UnchangedRepo

SrcDeleteFile(h) ==
    /\ Running
    /\ LET r == delete_file(Fs, srcs[h])
       IN  /\ dir' = r.fs.dir
           /\ inodes' = Gc(r.fs.dir, r.fs.inodes, srcs, storage)
           /\ last' = [NoLast EXCEPT !.op = "delete_file", !.res = r.res]
    /\ UNCHANGED srcs
    /\ UnchangedRepo

\* the tests' create_test_file: the file is written from outside the source
SrcCreateTestFile(path, content) ==
    /\ Running
    /\ CanWrite(Fs, path)
    /\ LET fs1 == fs_write(Fs, path, as_bytes(content))
       IN  /\ dir' = fs1.dir
           /\ inodes' = Gc(fs1.dir, fs1.inodes, srcs, storage)
           /\ last' = [NoLast EXCEPT !.op = "create_test_file"]
    /\ UNCHANGED srcs
    /\ UnchangedRepo

NextSource ==
    \/ \E p \in SrcPaths, c \in Texts : SrcCreateTestFile(p, c)
    \/ \E h \in Handles, p \in SrcPaths : SrcNew(h, p)
    \/ \E h \in Handles, h2 \in Handles : SrcClone(h, h2)
    \/ \E h \in Handles : SrcGetContent(h)
    \/ \E h \in Handles, s \in Args, e \in Args : SrcGetSlice(h, s, e)
    \/ \E h \in Handles, c \in Texts : SrcSetContent(h, c)
    \/ \E h \in Handles, s \in Args, e \in Args, c \in Texts : SrcSetSlice(h, s, e, c)
    \/ \E h \in Handles : SrcCreateFile(h)
    \/ \E h \in Handles : SrcDeleteFile(h)

SpecSource == InitSource /\ [][NextSource]_vars

(***************************************************************************)
(* CodeFile<FileSource>: an id, a name and the source it owns.             *)
(***************************************************************************)
CodeFile_new(id, name, source) == [id |-> id, name |-> name, source |-> source]

\* Clone of the entity clones its source
CodeFile_clone(fs, file) ==
    LET r == MmapFileSystemSource_clone(fs, file.source)
    IN  [res |-> r.res, file |-> CodeFile_new(file.id, file.name, r.src)]

(***************************************************************************)
(* InMemoryCodeFileRepository: a HashMap keyed by Uuid.  Every method      *)
(* takes the lock, works on the map and releases the lock on return.       *)
(***************************************************************************)
HashMap_insert(st, k, v) == [x \in DOMAIN st \cup {k} |-> IF x = k THEN v ELSE st[x]]

HashMap_remove(st, k) == [x \in DOMAIN st \ {k} |-> st[x]]

contains_key(st, k) == k \in DOMAIN st

\* save that keeps the entry of an id that is already present
repo_save_keep(fs, st, file) ==
    LET c == CodeFile_clone(fs, file)
    IN  IF c.res # "Ok"
        THEN [res |-> "panic", err |-> <<>>, storage |-> st, file |-> NoFile]
        ELSE [res |-> "Ok", err |-> <<>>,
              storage |-> IF contains_key(st, file.id) THEN st
                          ELSE HashMap_insert(st, file.id, c.file),
              file |-> file]

\* save: insert a clone under the entity's id, hand the entity back
repo_save(fs, st, file) ==
    LET c == CodeFile_clone(fs, file)
    IN  IF c.res # "Ok"
        THEN [res |-> "panic", err |-> <<>>, storage |-> st, file |-> NoFile]
        ELSE [res |-> "Ok", err |-> <<>>,
              storage |-> HashMap_insert(st, file.id, c.file), file |-> file]

\* find_by_id: a clone of the stored entity, or FileNotFound(id)
repo_find_by_id(fs, st, id) ==
    IF contains_key(st, id)
    THEN LET c == CodeFile_clone(fs, st[id])
         IN  IF c.res = "Ok" THEN [res |-> "Ok", err |-> <<>>, file |-> c.file]
             ELSE [res |-> "panic", err |-> <<>>, file |-> NoFile]
    ELSE [res |-> "FileNotFound", err |-> Uuid_to_string(id), file |-> NoFile]

\* update without the contains_key test: an upsert
repo_update_upsert(st, file) ==
    [res |-> "Ok", err |-> <<>>, storage |-> HashMap_insert(st, file.id, file)]

\* update: replace the entry of a present id, or FileNotFound(id)
repo_update(st, file) ==
    IF ~contains_key(st, file.id)
    THEN [res |-> "FileNotFound", err |-> Uuid_to_string(file.id), storage |-> st]
    ELSE [res |-> "Ok", err |-> <<>>, storage |-> HashMap_insert(st, file.id, file)]

\* delete: remove the entry of a present id, or FileNotFound(id)
repo_delete(st, id) ==
    IF contains_key(st, id)
    THEN [res |-> "Ok", err |-> <<>>, storage |-> HashMap_remove(st, id)]
    ELSE [res |-> "FileNotFound", err |-> Uuid_to_string(id), storage |-> st]

\* list: a clone of every stored entity.  The order of the Vec is the map's
\* iteration order, which is unspecified: the entities are listed here in the
\* order of their keys.
RECURSIVE KeysInOrder(_)
KeysInOrder(S) ==
    IF S = {} THEN <<>>
    ELSE LET k == CHOOSE x \in S : \A y \in S : x <= y
         IN  <<k>> \o KeysInOrder(S \ {k})

repo_list(fs, st) ==
    LET keys == KeysInOrder(DOMAIN st)
        all  == [i \in 1..Len(keys) |-> CodeFile_clone(fs, st[keys[i]])]
    IN  IF \E i \in 1..Len(keys) : all[i].res # "Ok"
        THEN [res |-> "panic", files |-> <<>>]
        ELSE [res |-> "Ok", files |-> [i \in 1..Len(keys) |-> all[i].file]]

(***************************************************************************)
(* SpecRepo: a caller of the repository.  Entities are built over files    *)
(* that the caller creates and deletes through a source.                   *)
(***************************************************************************)
InitRepo ==
    /\ dir = [p \in Paths |-> NoIno]
    /\ inodes = [i \in Inos |-> <<>>]
    /\ srcs = [h \in Handles |-> Source(PathOf("f1"), NoMmap)]
    /\ storage = EmptyStorage
    /\ nextId = 1
    /\ written = EmptyStorage
    /\ last = NoLast
    /\ lock = NoLock
    /\ callers = NoCallers
    /\ draft = NoDraft

\* the sources a caller can build for a path: MmapFileSystemSource::new(path)
\* once the file exists, or the literal with no mapping
BuildSources(fs, path) ==
    {Source(path, NoMmap)}
        \cup (IF File_exists(fs, path) THEN {MmapFileSystemSource_new(fs, path).src} ELSE {})

RepoSave(file) ==
    /\ Running
    /\ LET r == repo_save(Fs, storage, file)
       IN  /\ storage' = r.storage
           /\ inodes' = Gc(dir, inodes, srcs, r.storage)
           /\ last' = [NoLast EXCEPT !.op = "save", !.res = r.res, !.file = r.file,
                                     !.present = contains_key(storage, file.id)]
    /\ UNCHANGED <<dir, srcs, nextId, written>>
    /\ Sequential

RepoFindById(id) ==
    /\ Running
    /\ LET r == repo_find_by_id(Fs, storage, id)
       IN  last' = [NoLast EXCEPT !.op = "find_by_id", !.res = r.res, !.err = r.err,
                                  !.file = r.file, !.present = contains_key(storage, id)]
    /\ UNCHANGED <<dir, inodes, srcs, storage, nextId, written>>
    /\ Sequential

RepoUpdate(file) ==
    /\ Running
    /\ LET r == repo_update(storage, file)
       IN  /\ storage' = r.storage
           /\ inodes' = Gc(dir, inodes, srcs, r.storage)
           /\ last' = [NoLast EXCEPT !.op = "update", !.res = r.res, !.err = r.err]
    /\ UNCHANGED <<dir, srcs, nextId, written>>
    /\ Sequential

RepoDelete(id) ==
    /\ Running
    /\ LET r == repo_delete(storage, id)
       IN  /\ storage' = r.storage
           /\ inodes' = Gc(dir, inodes, srcs, r.storage)
           /\ last' = [NoLast EXCEPT !.op = "delete", !.res = r.res, !.err = r.err]
    /\ UNCHANGED <<dir, srcs, nextId, written>>
    /\ Sequential

RepoList ==
    /\ Running
    /\ LET r == repo_list(Fs, storage)
       IN  last' = [NoLast EXCEPT !.op = "list", !.res = r.res, !.listed = r.files]
    /\ UNCHANGED <<dir, inodes, srcs, storage, nextId, written>>
    /\ Sequential

\* a temporary source { path, mmap: None } creates or deletes the file
RepoCreateFile(path) ==
    /\ Running
    /\ CanWrite(Fs, path)
    /\ LET r == create_file(Fs, Source(path, NoMmap))
       IN  /\ dir' = r.fs.dir
           /\ inodes' = Gc(r.fs.dir, r.fs.inodes, srcs, storage)
           /\ last' = [NoLast EXCEPT !.op = "create_file", !.res = r.res]
    /\ UNCHANGED <<srcs, storage, nextId, written>>
    /\ Sequential

RepoDeleteFile(path) ==
    /\ Running
    /\ LET r == delete_file(Fs, Source(path, NoMmap))
       IN  /\ dir' = r.fs.dir
           /\ inodes' = Gc(r.fs.dir, r.fs.inodes, srcs, storage)
           /\ last' = [NoLast EXCEPT !.op = "delete_file", !.res = r.res]
    /\ UNCHANGED <<srcs, storage, nextId, written>>
    /\ Sequential

\* the entities a caller passes to save and update: built as create_code_file
\* builds them, over the file /tmp/<name>
BuildFiles ==
    UNION {{CodeFile_new(id, n, s) : id \in Uuids, s \in BuildSources(Fs, PathOf(n))}
              : n \in Names}

NextRepo ==
    \/ \E f \in BuildFiles : RepoSave(f)
    \/ \E id \in Uuids : RepoFindById(id)
    \/ \E f \in BuildFiles : RepoUpdate(f)
    \/ \E id \in Uuids : RepoDelete(id)
    \/ RepoList
    \/ \E p \in Paths : RepoCreateFile(p)
    \/ \E p \in Paths : RepoDeleteFile(p)

SpecRepo == InitRepo /\ [][NextRepo]_vars

(***************************************************************************)
(* CodeFileUsecasesImpl                                                    *)
(***************************************************************************)
Response(res, err, id, name, code) ==
    [res |-> res, err |-> err, id |-> id, name |-> name, text |-> code,
     start_index |-> 0, end_index |-> String_len(code)]

Failure(res, err) == Response(res, err, 0, "", <<>>)

\* create_code_file; id is the value Uuid::new_v4() returns
create_code_file(fs, st, id, name) ==
    LET file_path == PathOf(name)
        cr        == create_file(fs, Source(file_path, NoMmap))
        opened    == MmapFileSystemSource_new(cr.fs, file_path)
        cl        == MmapFileSystemSource_clone(cr.fs, opened.src)
        code_file == CodeFile_new(id, name, cl.src)
        sv        == repo_save(cr.fs, st, code_file)
        code      == get_content(cr.fs, sv.file.source)
    IN  IF cr.res # "Ok" THEN [resp |-> Failure("IoError", <<>>), fs |-> fs, storage |-> st]
        ELSE IF ~opened.ok
             THEN [resp |-> Failure("IoError", <<>>), fs |-> cr.fs, storage |-> st]
        ELSE IF cl.res # "Ok"
             THEN [resp |-> Failure(cl.res, <<>>), fs |-> cr.fs, storage |-> st]
        ELSE IF sv.res # "Ok"
             THEN [resp |-> Failure(sv.res, sv.err), fs |-> cr.fs, storage |-> st]
        ELSE IF code.res # "Ok"
             THEN [resp |-> Failure(code.res, <<>>), fs |-> cr.fs, storage |-> sv.storage]
        ELSE [resp |-> Response("Ok", <<>>, sv.file.id, name, code.text),
              fs |-> cr.fs, storage |-> sv.storage]

\* update_code_file that stores the written source as an entity without a name
update_code_file_unnamed(fs, st, id, start, end, content) ==
    LET found == repo_find_by_id(fs, st, id)
        wr    == set_slice(fs, found.file.source, start, end, content)
        upd   == repo_update(st, CodeFile_new(found.file.id, "", wr.src))
    IN  IF found.res # "Ok" THEN [res |-> found.res, err |-> found.err, fs |-> fs, storage |-> st]
        ELSE IF wr.res # "Ok" THEN [res |-> wr.res, err |-> <<>>, fs |-> fs, storage |-> st]
        ELSE [res |-> upd.res, err |-> upd.err, fs |-> wr.fs, storage |-> upd.storage]

\* update_code_file: find_by_id, set_slice on the copy, update
update_code_file(fs, st, id, start, end, content) ==
    LET found == repo_find_by_id(fs, st, id)
        wr    == set_slice(fs, found.file.source, start, end, content)
        upd   == repo_update(st, CodeFile_new(found.file.id, found.file.name, wr.src))
    IN  IF found.res # "Ok" THEN [res |-> found.res, err |-> found.err, fs |-> fs, storage |-> st]
        ELSE IF wr.res # "Ok" THEN [res |-> wr.res, err |-> <<>>, fs |-> fs, storage |-> st]
        ELSE [res |-> upd.res, err |-> upd.err, fs |-> wr.fs, storage |-> upd.storage]

\* get_code_file: find_by_id, then the whole content as the viewport
get_code_file(fs, st, file_id) ==
    LET found == repo_find_by_id(fs, st, file_id)
        code  == get_content(fs, found.file.source)
    IN  IF found.res # "Ok" THEN Failure(found.res, found.err)
        ELSE IF code.res # "Ok" THEN Failure(code.res, <<>>)
        ELSE Response("Ok", <<>>, found.file.id, found.file.name, code.text)

\* delete_code_file: find_by_id, delete_file on the copy, delete
\* delete_code_file that drops the catalogue entry and keeps the file
delete_code_file_keep_medium(fs, st, file_id) ==
    LET found == repo_find_by_id(fs, st, file_id)
        del   == repo_delete(st, file_id)
    IN  IF found.res # "Ok" THEN [res |-> found.res, err |-> found.err, fs |-> fs, storage |-> st]
        ELSE [res |-> del.res, err |-> del.err, fs |-> fs, storage |-> del.storage]

delete_code_file(fs, st, file_id) ==
    LET found == repo_find_by_id(fs, st, file_id)
        rm    == delete_file(fs, found.file.source)
        del   == repo_delete(st, file_id)
    IN  IF found.res # "Ok" THEN [res |-> found.res, err |-> found.err, fs |-> fs, storage |-> st]
        ELSE IF rm.res # "Ok" THEN [res |-> "IoError", err |-> <<>>, fs |-> fs, storage |-> st]
        ELSE [res |-> del.res, err |-> del.err, fs |-> rm.fs, storage |-> del.storage]

(***************************************************************************)
(* Spec: a caller of the use cases.  `written` keeps, for every entity in  *)
(* the repository, the text that its own successful range-writes produce   *)
(* from the empty file it was created with.                                *)
(***************************************************************************)
Diverged == <<-1>>

\* the content a get_code_file(id) would return now
ViewOf(fs, st, id) ==
    LET r == get_code_file(fs, st, id)
    IN  IF r.res = "Ok" THEN r.text ELSE Diverged

\* history of range-writes: kept exact as long as the views agree with it
Track(fs, st, hist) ==
    [k \in DOMAIN st |->
        IF k \in DOMAIN hist /\ hist[k] = ViewOf(fs, st, k) THEN hist[k] ELSE Diverged]

Init ==
    /\ dir = [p \in Paths |-> NoIno]
    /\ inodes = [i \in Inos |-> <<>>]
    /\ srcs = [h \in Handles |-> Source(PathOf("f1"), NoMmap)]
    /\ storage = EmptyStorage
    /\ nextId = 1
    /\ written = EmptyStorage
    /\ last = NoLast
    /\ lock = NoLock
    /\ callers = NoCallers
    /\ draft = NoDraft

AsLast(op, r) ==
    [NoLast EXCEPT !.op = op, !.res = r.res, !.err = r.err, !.id = r.id, !.name = r.name,
                   !.text = r.text, !.start_index = r.start_index,
                   !.end_index = r.end_index]

CreateCodeFile(name) ==
    /\ Running
    /\ nextId <= MaxIds
    /\ CanWrite(Fs, PathOf(name))
    /\ LET r == create_code_file(Fs, storage, nextId, name)
       IN  /\ dir' = r.fs.dir
           /\ inodes' = Gc(r.fs.dir, r.fs.inodes, srcs, r.storage)
           /\ storage' = r.storage
           /\ written' = Track(r.fs, r.storage,
                                IF r.resp.res = "Ok"
                                THEN HashMap_insert(written, nextId, <<>>) ELSE written)
           /\ last' = AsLast("create_code_file", r.resp)
    /\ nextId' = nextId + 1
    /\ UNCHANGED srcs
    /\ Sequential

UpdateCodeFile(id, start, end, content) ==
    /\ Running
    /\ LET found == repo_find_by_id(Fs, storage, id)
       IN  found.res = "Ok" => SpliceWithinBound(Fs, found.file.source, start, end, content)
    /\ LET r == update_code_file(Fs, storage, id, start, end, content)
       IN  /\ dir' = r.fs.dir
           /\ inodes' = Gc(r.fs.dir, r.fs.inodes, srcs, r.storage)
           /\ storage' = r.storage
           /\ written' = Track(r.fs, r.storage,
                                IF r.res = "Ok"
                                THEN [written EXCEPT ![id] =
                                        Vec_splice(@, start, end, content).chars]
                                ELSE written)
           /\ last' = [NoLast EXCEPT !.op = "update_code_file", !.res = r.res, !.err = r.err]
    /\ UNCHANGED <<srcs, nextId>>
    /\ Sequential

GetCodeFile(id) ==
    /\ Running
    /\ last' = AsLast("get_code_file", get_code_file(Fs, storage, id))
    /\ UNCHANGED <<dir, inodes, srcs, storage, nextId, written>>
    /\ Sequential

DeleteCodeFile(id) ==
    /\ Running
    /\ LET r == delete_code_file(Fs, storage, id)
       IN  /\ dir' = r.fs.dir
           /\ inodes' = Gc(r.fs.dir, r.fs.inodes, srcs, r.storage)
           /\ storage' = r.storage
           /\ written' = Track(r.fs, r.storage, written)
           /\ last' = [NoLast EXCEPT !.op = "delete_code_file", !.res = r.res, !.err = r.err]
    /\ UNCHANGED <<srcs, nextId>>
    /\ Sequential

Next ==
    \/ \E n \in Names : CreateCodeFile(n)
    \/ \E id \in Uuids, s \in Args, e \in Args, c \in Texts : UpdateCodeFile(id, s, e, c)
    \/ \E id \in Uuids : GetCodeFile(id)
    \/ \E id \in Uuids : DeleteCodeFile(id)

Spec == Init /\ [][Next]_vars

(***************************************************************************)
(* SpecLock: two threads call the methods of one repository.  A method is  *)
(* entered by taking its guard of the RwLock and left by doing its work on *)
(* the map and dropping the guard.  The entities have unmapped sources.    *)
(***************************************************************************)
RepoOps == {"save", "find_by_id", "update", "delete", "list"}

\* a repository in which save asks for the read guard
LockModeOf_save_reads(op) ==
    IF op \in {"save", "find_by_id", "list"} THEN "read" ELSE "write"

\* self.storage.read() in find_by_id and list, self.storage.write() in save,
\* update and delete
LockModeOf(op) ==
    IF op \in {"find_by_id", "list"} THEN "read" ELSE "write"

\* RwLock: a read guard is granted unless a writer holds the lock, the write
\* guard only when nobody holds it
RwLock_free(l, mode) ==
    IF mode = "read" THEN l.writer = 0 ELSE l.writer = 0 /\ l.readers = {}

RwLock_acquire(l, c, mode) ==
    IF mode = "read" THEN [l EXCEPT !.readers = @ \cup {c}] ELSE [l EXCEPT !.writer = c]

\* the guard is dropped when the method returns
RwLock_release(l, c) ==
    [writer |-> IF l.writer = c THEN 0 ELSE l.writer, readers |-> l.readers \ {c}]

\* the entities the threads pass: of any id and name, not mapped
UnmappedFiles == {CodeFile_new(id, n, Source(PathOf(n), NoMmap)) : id \in Uuids, n \in Names}

\* what a method is called with: an entity (save, update), an id (find_by_id,
\* delete; kept as the id of a record that is otherwise blank) or nothing
LockArgs(op) ==
    IF op \in {"save", "update"} THEN UnmappedFiles
    ELSE IF op = "list" THEN {NoFile}
    ELSE {[NoFile EXCEPT !.id = id] : id \in Uuids}

\* the callers inside a method that takes the write guard / the read guard
InsideWrite == {c \in Callers : callers[c].pc \in {"save", "update", "delete"}}
InsideRead  == {c \in Callers : callers[c].pc \in {"find_by_id", "list"}}

InitLock ==
    /\ dir = [p \in Paths |-> NoIno]
    /\ inodes = [i \in Inos |-> <<>>]
    /\ srcs = [h \in Handles |-> Source(PathOf("f1"), NoMmap)]
    /\ storage = EmptyStorage
    /\ nextId = 1
    /\ written = EmptyStorage
    /\ last = NoLast
    /\ lock = NoLock
    /\ callers = NoCallers
    /\ draft = NoDraft

LockFrame == UNCHANGED <<dir, inodes, srcs, nextId, written, draft>>

\* a method is called and takes its guard
LockEnter(c, op, file) ==
    /\ callers[c].pc = "idle"
    /\ RwLock_free(lock, LockModeOf(op))
    /\ lock' = RwLock_acquire(lock, c, LockModeOf(op))
    /\ callers' = [callers EXCEPT ![c].pc = op, ![c].file = file]
    /\ last' = [NoLast EXCEPT !.op = "enter"]
    /\ UNCHANGED storage
    /\ LockFrame

LockReturn(c) ==
    /\ lock' = RwLock_release(lock, c)
    /\ callers' = [callers EXCEPT ![c] = IdleCaller]

LockSave(c) ==
    /\ callers[c].pc = "save"
    /\ LET r == repo_save(Fs, storage, callers[c].file)
       IN  /\ storage' = r.storage
           /\ last' = [NoLast EXCEPT !.op = "save", !.res = r.res]
    /\ LockReturn(c)
    /\ LockFrame

LockFindById(c) ==
    /\ callers[c].pc = "find_by_id"
    /\ LET r == repo_find_by_id(Fs, storage, callers[c].file.id)
       IN  last' = [NoLast EXCEPT !.op = "find_by_id", !.res = r.res, !.err = r.err]
    /\ LockReturn(c)
    /\ UNCHANGED storage
    /\ LockFrame

LockUpdate(c) ==
    /\ callers[c].pc = "update"
    /\ LET r == repo_update(storage, callers[c].file)
       IN  /\ storage' = r.storage
           /\ last' = [NoLast EXCEPT !.op = "update", !.res = r.res, !.err = r.err]
    /\ LockReturn(c)
    /\ LockFrame

LockDelete(c) ==
    /\ callers[c].pc = "delete"
    /\ LET r == repo_delete(storage, callers[c].file.id)
       IN  /\ storage' = r.storage
           /\ last' = [NoLast EXCEPT !.op = "delete", !.res = r.res, !.err = r.err]
    /\ LockReturn(c)
    /\ LockFrame

LockList(c) ==
    /\ callers[c].pc = "list"
    /\ LET r == repo_list(Fs, storage)
       IN  last' = [NoLast EXCEPT !.op = "list", !.res = r.res]
    /\ LockReturn(c)
    /\ UNCHANGED storage
    /\ LockFrame

NextLock ==
    \/ \E c \in Callers, op \in RepoOps : \E f \in LockArgs(op) : LockEnter(c, op, f)
    \/ \E c \in Callers : LockSave(c)
    \/ \E c \in Callers : LockFindById(c)
    \/ \E c \in Callers : LockUpdate(c)
    \/ \E c \in Callers : LockDelete(c)
    \/ \E c \in Callers : LockList(c)

SpecLock == InitLock /\ [][NextLock]_vars


(***************************************************************************)
(* SpecConc: an entity is created, then two threads work on it.  Each      *)
(* takes a copy with find_by_id, writes through its copy with set_slice    *)
(* and stores it with update, once, and reads its copy when it likes.  A   *)
(* repository method runs under its guard and is one step; a range-write   *)
(* runs as its system calls.  A panic ends the calling thread, a SIGBUS    *)
(* ends the process.                                                       *)
(***************************************************************************)
ConcName == "f1"

\* write_all at offset 0 of a file opened before: bytes beyond the written
\* ones stay
write_all(old, bytes) ==
    bytes \o SubSeq(old, Len(bytes) + 1, Len(old))

InitConc ==
    /\ dir = [p \in Paths |-> NoIno]
    /\ inodes = [i \in Inos |-> <<>>]
    /\ srcs = [h \in Handles |-> Source(PathOf("f1"), NoMmap)]
    /\ storage = EmptyStorage
    /\ nextId = 1
    /\ written = EmptyStorage
    /\ last = NoLast
    /\ lock = NoLock
    /\ callers = NoCallers
    /\ draft = NoDraft

ConcRunning == last.res # "sigbus"

\* the thread of a call that returned res goes on, or has panicked
AfterCall(res) == IF res = "panic" THEN "dead" ELSE "idle"

\* create_code_file(name), before the threads start
ConcCreateCodeFile ==
    /\ ConcRunning
    /\ storage = EmptyStorage
    /\ \A c \in Callers : callers[c] = IdleCaller
    /\ CanWrite(Fs, PathOf(ConcName))
    /\ LET r == create_code_file(Fs, storage, nextId, ConcName)
       IN  /\ dir' = r.fs.dir
           /\ inodes' = r.fs.inodes
           /\ storage' = r.storage
           /\ last' = [NoLast EXCEPT !.op = "create_code_file", !.res = r.resp.res]
    /\ nextId' = nextId + 1
    /\ UNCHANGED <<srcs, written, lock, callers, draft>>

\* find_by_id(id): the caller now holds a copy of the stored entity
ConcFindById(c, id) ==
    /\ ConcRunning
    /\ callers[c].pc = "idle"
    /\ callers[c].phase = "none"
    /\ LET r == repo_find_by_id(Fs, storage, id)
       IN  /\ callers' = [callers EXCEPT
                            ![c].pc = AfterCall(r.res),
                            ![c].file = IF r.res = "Ok" THEN r.file ELSE @,
                            ![c].buf = <<>>,
                            ![c].phase = IF r.res = "Ok" THEN "found" ELSE "none"]
           /\ last' = [NoLast EXCEPT !.op = "find_by_id", !.res = r.res]
    /\ UNCHANGED <<dir, inodes, srcs, storage, nextId, written, lock, draft>>

\* set_slice on the entity held, up to the first system call of set_content:
\* get_content, splice, then std::fs::write opens the file with truncate
ConcSetSlice(c, start, end, content) ==
    /\ ConcRunning
    /\ callers[c].pc = "idle"
    /\ callers[c].phase = "found"
    /\ SpliceWithinBound(Fs, callers[c].file.source, start, end, content)
    /\ LET src == callers[c].file.source
           cur == get_content(Fs, src)
           sp  == Vec_splice(cur.text, start, end, content)
           res == IF cur.res # "Ok" THEN cur.res ELSE IF sp.ok THEN "Ok" ELSE "panic"
           fs1 == IF res = "Ok" THEN fs_write(Fs, src.path, <<>>) ELSE Fs
       IN  /\ dir' = fs1.dir
           /\ inodes' = fs1.inodes
           /\ callers' = [callers EXCEPT
                            ![c].pc = IF res = "Ok" THEN "write" ELSE AfterCall(res),
                            ![c].buf = IF res = "Ok" THEN sp.chars ELSE @,
                            ![c].phase = IF res = "Ok" THEN "sliced" ELSE "none"]
           /\ last' = [NoLast EXCEPT !.op = "truncate", !.res = res]
    /\ UNCHANGED <<srcs, storage, nextId, written, lock, draft>>

\* std::fs::write: write_all on the file it opened
ConcWriteAll(c) ==
    /\ ConcRunning
    /\ callers[c].pc = "write"
    /\ LET ino == dir[callers[c].file.source.path]
       IN  inodes' = [inodes EXCEPT ![ino] = write_all(@, as_bytes(callers[c].buf))]
    /\ callers' = [callers EXCEPT ![c].pc = "open"]
    /\ last' = [NoLast EXCEPT !.op = "write_all"]
    /\ UNCHANGED <<dir, srcs, storage, nextId, written, lock, draft>>

\* set_content: File::open and Mmap::map; set_slice returns
ConcRemap(c) ==
    /\ ConcRunning
    /\ callers[c].pc = "open"
    /\ callers' = [callers EXCEPT
                     ![c].pc = "idle",
                     ![c].file.source.mmap = Mmap_map(Fs, callers[c].file.source.path)]
    /\ last' = [NoLast EXCEPT !.op = "set_slice"]
    /\ UNCHANGED <<dir, inodes, srcs, storage, nextId, written, lock, draft>>

\* update(entity held).  written keeps the content that the caller whose
\* update came last had produced with its set_slice.
ConcUpdate(c) ==
    /\ ConcRunning
    /\ callers[c].pc = "idle"
    /\ callers[c].phase = "sliced"
    /\ LET r == repo_update(storage, callers[c].file)
       IN  /\ storage' = r.storage
           /\ callers' = [callers EXCEPT ![c].phase = IF r.res = "Ok" THEN "updated" ELSE "none"]
           /\ written' = IF r.res = "Ok"
                         THEN HashMap_insert(written, callers[c].file.id, callers[c].buf)
                         ELSE written
           /\ last' = [NoLast EXCEPT !.op = "update", !.res = r.res]
    /\ UNCHANGED <<dir, inodes, srcs, nextId, lock, draft>>

\* get_content on the entity held
ConcGetContent(c) ==
    /\ ConcRunning
    /\ callers[c].pc = "idle"
    /\ callers[c].file # NoFile
    /\ LET r == get_content(Fs, callers[c].file.source)
       IN  last' = [NoLast EXCEPT !.op = "get_content", !.res = r.res, !.text = r.text]
    /\ UNCHANGED <<dir, inodes, srcs, storage, nextId, written, lock, callers, draft>>

NextConc ==
    \/ ConcCreateCodeFile
    \/ \E c \in Callers, id \in Uuids : ConcFindById(c, id)
    \/ \E c \in Callers, s \in Args, e \in Args, t \in Texts : ConcSetSlice(c, s, e, t)
    \/ \E c \in Callers : ConcWriteAll(c)
    \/ \E c \in Callers : ConcRemap(c)
    \/ \E c \in Callers : ConcUpdate(c)
    \/ \E c \in Callers : ConcGetContent(c)

SpecConc == InitConc /\ [][NextConc]_vars

(***************************************************************************)
(* The chunked draft entity (domain/code_file.rs): a file is a map from    *)
(* the hash of a chunk to the chunk.                                       *)
(***************************************************************************)
DEFUALT_CONTENT_MAX_LENGTH == 1000

DraftTexts == SeqsUpTo(Chars, MaxDraftLen)
ChunkLens  == Args

\* struct FilePartialContent { hash, content }
FilePartialContent(hash, content) == [some |-> TRUE, hash |-> hash, content |-> content]

\* evaluate_hash: DefaultHasher::new() has fixed keys, so the u64 is a
\* function of the bytes alone; two different byte strings of the model are
\* taken to have different hashes
evaluate_hash(content) == <<"hash", as_bytes(content)>>

\* FilePartialContent::new
FilePartialContent_new(content) == FilePartialContent(evaluate_hash(content), content)

get_hash(part) == part.hash

FilePartialContent_get_content(part) == part.content

\* set_content that stores the content and keeps the old hash
FilePartialContent_set_content_stale(part, content) ==
    [part EXCEPT !.content = content]

\* FilePartialContent::set_content
FilePartialContent_set_content(part, content) ==
    [part EXCEPT !.content = content, !.hash = evaluate_hash(content)]

\* <FilePartialContent as Mergable>::merge(&self, &other)
merge(self, other) ==
    FilePartialContent_new(
        FilePartialContent_get_content(self) \o FilePartialContent_get_content(other))

\* str::is_char_boundary on the bytes of a string
is_char_boundary(bytes, i) ==
    \/ i = 0
    \/ i = Len(bytes)
    \/ i < Len(bytes) /\ ~IsContinuation(bytes[i + 1])

\* content[start..end] of a String: byte offsets, a panic off a character
\* boundary
str_index(content, start, end) ==
    LET bytes == as_bytes(content)
    IN  IF is_char_boundary(bytes, start) /\ is_char_boundary(bytes, end)
        THEN [res |-> "Ok", text |-> from_utf8_lossy(SubSeq(bytes, start + 1, end))]
        ELSE [res |-> "panic", text |-> <<>>]

\* the loop of new_with_chunk_len from iteration i on
RECURSIVE content_parts_from(_, _, _, _)
content_parts_from(content, chunk_len, i, content_parts) ==
    LET len   == String_len(content)
        start == chunk_len * i
        end   == IF start + chunk_len < len THEN start + chunk_len ELSE len
        piece == str_index(content, start, end)
        file_partial_content == FilePartialContent_new(piece.text)
    IN  IF i >= len \div chunk_len + 1 THEN [res |-> "Ok", content |-> content_parts]
        ELSE IF start >= len
             THEN content_parts_from(content, chunk_len, i + 1, content_parts)
        ELSE IF piece.res # "Ok" THEN [res |-> "panic", content |-> <<>>]
        ELSE content_parts_from(content, chunk_len, i + 1,
                 HashMap_insert(content_parts, get_hash(file_partial_content),
                                file_partial_content))

\* CodeFile::new_with_chunk_len; content.len() / 0 is a panic
new_with_chunk_len(name, content, chunk_len) ==
    LET parts == IF chunk_len = 0 THEN [res |-> "panic", content |-> <<>>]
                 ELSE content_parts_from(content, chunk_len, 0, <<>>)
    IN  IF parts.res = "Ok"
        THEN [res |-> "Ok", file |-> [some |-> TRUE, name |-> name, content |-> parts.content]]
        ELSE [res |-> "panic", file |-> NoChunkedFile]

\* CodeFile::new of the draft
ChunkedCodeFile_new(name, content) ==
    new_with_chunk_len(name, content, DEFUALT_CONTENT_MAX_LENGTH)

(***************************************************************************)
(* SpecDraft: a test builds one chunked file, or parts that it rewrites    *)
(* and merges.                                                             *)
(***************************************************************************)
InitDraft ==
    /\ dir = [p \in Paths |-> NoIno]
    /\ inodes = [i \in Inos |-> <<>>]
    /\ srcs = [h \in Handles |-> Source(PathOf("f1"), NoMmap)]
    /\ storage = EmptyStorage
    /\ nextId = 1
    /\ written = EmptyStorage
    /\ last = NoLast
    /\ lock = NoLock
    /\ callers = NoCallers
    /\ draft = NoDraft

DraftFrame == UNCHANGED <<dir, inodes, srcs, storage, nextId, written, last, lock, callers>>

\* the values of the running test: a test on parts starts without a file
PartsTest == IF draft.op \in {"new", "new_with_chunk_len"} THEN NoDraft ELSE draft

\* let file = CodeFile::new_with_chunk_len(name, content, chunk_len)
DraftNewWithChunkLen(content, chunk_len) ==
    /\ LET r == new_with_chunk_len("f1", content, chunk_len)
       IN  draft' = [NoDraft EXCEPT !.op = "new_with_chunk_len", !.res = r.res,
                                    !.content = content, !.chunk_len = chunk_len,
                                    !.file = r.file]
    /\ DraftFrame

\* let file = CodeFile::new(name, content)
DraftNew(content) ==
    /\ LET r == ChunkedCodeFile_new("f1", content)
       IN  draft' = [NoDraft EXCEPT !.op = "new", !.res = r.res,
                                    !.content = content,
                                    !.chunk_len = DEFUALT_CONTENT_MAX_LENGTH,
                                    !.file = r.file]
    /\ DraftFrame

\* let part = FilePartialContent::new(content)
PartNew(i, content) ==
    /\ draft' = [PartsTest EXCEPT !.op = "FilePartialContent::new",
                                  !.parts[i] = FilePartialContent_new(content)]
    /\ DraftFrame

\* part.set_content(content)
PartSetContent(i, content) ==
    /\ draft.parts[i].some
    /\ draft' = [draft EXCEPT !.op = "set_content",
                              !.parts[i] = FilePartialContent_set_content(@, content)]
    /\ DraftFrame

\* let merged = a.merge(&b)
PartMerge ==
    /\ \A i \in Slots : draft.parts[i].some
    /\ Len(draft.parts[1].content) + Len(draft.parts[2].content) <= MaxDraftLen
    /\ draft' = [draft EXCEPT !.op = "merge",
                              !.merged = merge(draft.parts[1], draft.parts[2])]
    /\ DraftFrame

NextDraft ==
    \/ \E content \in DraftTexts, chunk_len \in ChunkLens :
          DraftNewWithChunkLen(content, chunk_len)
    \/ \E content \in DraftTexts : DraftNew(content)
    \/ \E i \in Slots, content \in DraftTexts : PartNew(i, content)
    \/ \E i \in Slots, content \in DraftTexts : PartSetContent(i, content)
    \/ PartMerge

SpecDraft == InitDraft /\ [][NextDraft]_vars

(***************************************************************************)
(* Properties of the repository.  A property of a call is stated for the   *)
(* call made in any reachable state, with any arguments.                   *)
(***************************************************************************)
FsNext == [dir |-> dir', inodes |-> inodes']

\* C1: find_by_id(id), update(entity with that id) and delete(id) on an id
\* that is not in the map return FileNotFound carrying that id and leave the
\* map as it was; update never creates an entry.
C1_NotFoundLeavesMap ==
    \A id \in Uuids \ DOMAIN storage :
        /\ repo_find_by_id(Fs, storage, id)
              = [res |-> "FileNotFound", err |-> Uuid_to_string(id), file |-> NoFile]
        /\ \A f \in BuildFiles :
              f.id = id
                  => repo_update(storage, f)
                       = [res |-> "FileNotFound", err |-> Uuid_to_string(id),
                          storage |-> storage]
        /\ repo_delete(storage, id)
              = [res |-> "FileNotFound", err |-> Uuid_to_string(id), storage |-> storage]

\* an update of an absent id was refused while another entity is stored
C1_Witness ==
    /\ last.op = "update"
    /\ last.res = "FileNotFound"
    /\ last.err = Uuid_to_string(2)
    /\ DOMAIN storage = {1}

\* C2: save(entity) on an id that is already in the map overwrites the stored
\* entity: the set of ids and the length of list() stay the same and
\* find_by_id(id) then returns the entity just saved.
C2_SaveOverwrites ==
    \A f \in BuildFiles :
        contains_key(storage, f.id)
            => LET r == repo_save(Fs, storage, f)
               IN  /\ r.res = "Ok"
                   /\ r.file = f
                   /\ DOMAIN r.storage = DOMAIN storage
                   /\ repo_list(Fs, storage).res = "Ok"
                         => /\ repo_list(Fs, r.storage).res = "Ok"
                            /\ Len(repo_list(Fs, r.storage).files)
                                  = Len(repo_list(Fs, storage).files)
                   /\ repo_find_by_id(Fs, r.storage, f.id)
                         = [res |-> "Ok", err |-> <<>>, file |-> f]

\* a save replaced the entity of a present id while a second entity is stored
C2_Witness ==
    /\ last.op = "save"
    /\ last.res = "Ok"
    /\ last.present
    /\ Cardinality(DOMAIN storage) = 2
    /\ storage[last.file.id].name = "f2"

\* C3: an id is absent, then present, then absent.  While an id is in the map
\* every find_by_id(id) succeeds; while it is not, find_by_id, update and
\* delete on it fail with FileNotFound; an id enters the map only by a save
\* and leaves it only by a delete, and a delete changes no other entry.
C3_AbsentPresentAbsent ==
    /\ [](\A id \in Uuids :
            IF contains_key(storage, id)
            THEN repo_find_by_id(Fs, storage, id).res = "Ok"
            ELSE /\ repo_find_by_id(Fs, storage, id).res = "FileNotFound"
                 /\ repo_update(storage, CodeFile_new(id, "f1", Source(PathOf("f1"), NoMmap))).res
                        = "FileNotFound"
                 /\ repo_delete(storage, id).res = "FileNotFound")
    /\ [][ \A id \in Uuids :
              /\ (contains_key(storage, id) /\ ~contains_key(storage', id))
                    => /\ last'.op = "delete_code_file"
                       /\ last'.res = "Ok"
                       /\ \A k \in DOMAIN storage \ {id} :
                             contains_key(storage', k) /\ storage'[k] = storage[k]
              /\ (~contains_key(storage, id) /\ contains_key(storage', id))
                    => (last'.op = "create_code_file" /\ last'.res = "Ok")
          ]_vars

(***************************************************************************)
(* Properties of a source (SpecSource).                                    *)
(***************************************************************************)
\* C4: set_content(c) followed by get_content() on the same source returns
\* exactly c, for every text c including the empty one, and the file holds c.
C4_SetContentRoundTrip ==
    \A h \in Handles, c \in Texts :
        CanWrite(Fs, srcs[h].path)
            => LET r == set_content(Fs, srcs[h], c)
               IN  /\ r.res = "Ok"
                   /\ get_content(r.fs, r.src) = [res |-> "Ok", text |-> c]
                   /\ File_exists(r.fs, r.src.path)
                   /\ from_utf8_lossy(r.fs.inodes[r.fs.dir[r.src.path]]) = c

\* a text with a two-byte character was written and reads back
C4_Witness ==
    /\ last.op = "set_content"
    /\ last.res = "Ok"
    /\ get_content(Fs, srcs[1]).text = <<233>>
    /\ inodes[dir[srcs[1].path]] = <<195, 169>>

\* C5: for every content and every range 0 <= s <= e <= len(content),
\* get_slice(s, e) returns the substring of get_content() over that range of
\* characters.
C5_SliceIsSubstring ==
    [][ \A h \in Handles, s \in Args, e \in Args :
          LET x == get_content(Fs, srcs[h])
          IN  (SrcGetSlice(h, s, e) /\ srcs[h].mmap.some /\ x.res = "Ok"
                 /\ s <= e /\ e <= Len(x.text))
                  => /\ last'.res = "Ok"
                     /\ last'.text = SubSeq(x.text, s + 1, e)
      ]_vars

\* C6: for every content x and every range 0 <= s <= e <= len(x) (counted in
\* characters), set_slice(s, e, c) leaves the content x[0..s] ++ c ++ x[e..]:
\* an insertion when e = s, an overwrite when e > s, a deletion when c is empty.
C6_SetSliceSplices ==
    \A h \in Handles, s \in Args, e \in Args, c \in Texts :
        LET x == get_content(Fs, srcs[h])
            r == set_slice(Fs, srcs[h], s, e, c)
        IN  (CanWrite(Fs, srcs[h].path) /\ x.res = "Ok" /\ s <= e /\ e <= Len(x.text))
                => /\ r.res = "Ok"
                   /\ get_content(r.fs, r.src)
                        = [res |-> "Ok",
                           text |-> SubSeq(x.text, 1, s) \o c
                                       \o SubSeq(x.text, e + 1, Len(x.text))]

\* a set_slice left the two-byte character as the content of the mapped file
C6_Witness ==
    /\ last.op = "set_slice"
    /\ last.res = "Ok"
    /\ srcs[1].mmap = [some |-> TRUE, ino |-> dir[srcs[1].path], len |-> 2]
    /\ get_content(Fs, srcs[1]).text = <<233>>

\* C7: a range write (set_slice on a source, update_code_file on an entity)
\* with start > end or end beyond the current content length is rejected with
\* InvalidRange and leaves the content, the file and the repository unchanged.
C7_InvalidRangeRejected ==
    [][ /\ \A id \in Uuids, s \in Args, e \in Args, c \in Texts :
              LET f == repo_find_by_id(Fs, storage, id)
                  x == get_content(Fs, f.file.source)
              IN  (UpdateCodeFile(id, s, e, c) /\ f.res = "Ok" /\ x.res = "Ok"
                     /\ (s > e \/ e > String_len(x.text)))
                      => /\ last'.res = "InvalidRange"
                         /\ dir' = dir /\ inodes' = inodes /\ storage' = storage
        /\ \A h \in Handles, s \in Args, e \in Args, c \in Texts :
              LET x == get_content(Fs, srcs[h])
              IN  (SrcSetSlice(h, s, e, c) /\ x.res = "Ok"
                     /\ (s > e \/ e > String_len(x.text)))
                      => /\ last'.res = "InvalidRange"
                         /\ dir' = dir /\ inodes' = inodes /\ srcs' = srcs
      ]_vars

\* C8: get_slice(start, end) on a mapped source with start > end or end beyond
\* the content length fails with InvalidRange; it does not panic.
C8_SliceOutOfRangeIsInvalidRange ==
    [][ \A h \in Handles, s \in Args, e \in Args :
          LET x == get_content(Fs, srcs[h])
          IN  (SrcGetSlice(h, s, e) /\ srcs[h].mmap.some /\ x.res = "Ok"
                 /\ (s > e \/ e > String_len(x.text)))
                  => last'.res = "InvalidRange"
      ]_vars

\* C9: reads and writes index the content the same way: after a set_slice(s, e, c)
\* that succeeded, get_slice(s, s + len(c)) returns c.
C9_OneIndexingScheme ==
    [][ \A h \in Handles, s \in Args, e \in Args, c \in Texts :
          (SrcSetSlice(h, s, e, c) /\ last'.res = "Ok")
              => get_slice(FsNext, srcs'[h], s, s + Len(c)) = [res |-> "Ok", text |-> c]
      ]_vars

(***************************************************************************)
(* Properties of the use cases (Spec).                                     *)
(***************************************************************************)
\* C10: no stale view leaks past a write: get_code_file(id) returns exactly the
\* content that the successful range-writes to that entity produce, in order.
C10_NoStaleView ==
    \A id \in DOMAIN storage :
        LET r == get_code_file(Fs, storage, id)
        IN  r.res = "Ok" /\ r.text = written[id]

(***************************************************************************)
(* Creation, isolation and unmapped reads.                                 *)
(***************************************************************************)
\* C11: create_file() on a source whose file already exists succeeds and does
\* not truncate it: the file holds the same bytes after the call as before.
C11_CreateKeepsContent ==
    [][ \A h \in Handles :
          (SrcCreateFile(h) /\ File_exists(Fs, srcs[h].path))
              => /\ last'.res = "Ok"
                 /\ File_exists(FsNext, srcs[h].path)
                 /\ inodes'[dir'[srcs[h].path]] = inodes[dir[srcs[h].path]]
      ]_vars

\* C12: two entities never observe each other's content: an update_code_file
\* of one entity leaves what get_code_file returns for every other entity as
\* it was, whatever names the entities were created with.
C12_Isolation ==
    [][ \A id \in Uuids, s \in Args, e \in Args, c \in Texts :
          UpdateCodeFile(id, s, e, c)
              => \A k \in DOMAIN storage \ {id} :
                    get_code_file(FsNext, storage', k) = get_code_file(Fs, storage, k)
      ]_vars

\* C13: a source with no mapping never fails a read: get_content() returns
\* the empty string and get_slice(start, end) returns the empty string for
\* every start and end, whatever the file holds.
C13_UnmappedReadsEmpty ==
    \A h \in Handles :
        ~srcs[h].mmap.some
            => /\ get_content(Fs, srcs[h]) = [res |-> "Ok", text |-> <<>>]
               /\ \A s \in Args, e \in Args :
                     get_slice(Fs, srcs[h], s, e) = [res |-> "Ok", text |-> <<>>]

\* an unmapped source read a slice while its file holds text
C13_Witness ==
    /\ last.op = "get_slice"
    /\ last.res = "Ok"
    /\ last.text = <<>>
    /\ ~srcs[1].mmap.some
    /\ File_exists(Fs, srcs[1].path)
    /\ inodes[dir[srcs[1].path]] = <<195, 169>>

(***************************************************************************)
(* Identity of the stored entities.                                        *)
(***************************************************************************)
\* C14: every entry of the repository is stored under the id of its entity, so
\* no two stored entities share an id; update_code_file stores the entity it
\* wrote through under the same id with the same name and leaves the number
\* of entries as it was.
C14_IdIsKey ==
    /\ [](\A k \in DOMAIN storage : storage[k].id = k)
    /\ [][ last'.op = "update_code_file"
              => /\ DOMAIN storage' = DOMAIN storage
                 /\ \A k \in DOMAIN storage :
                       /\ storage'[k].id = storage[k].id
                       /\ storage'[k].name = storage[k].name
          ]_vars

\* an update stored the entity of the second id with a new two-byte mapping
C14_Witness ==
    /\ last.op = "update_code_file"
    /\ last.res = "Ok"
    /\ DOMAIN storage = {1, 2}
    /\ storage[2] = CodeFile_new(2, "f2", Source(PathOf("f2"),
                        [some |-> TRUE, ino |-> dir[PathOf("f2")], len |-> 2]))

(***************************************************************************)
(* Concurrent callers.                                                     *)
(***************************************************************************)
\* C15: the map is guarded by one reader/writer lock: at any time either no
\* thread is inside save, update or delete, or exactly one is and none is
\* inside find_by_id or list; a thread can always enter find_by_id or list
\* while no thread is inside save, update or delete, whoever is reading.
C15_ReadersWriterLock ==
    /\ Cardinality(InsideWrite) <= 1
    /\ InsideWrite # {} => InsideRead = {}
    /\ \A c \in Callers :
          (callers[c].pc = "idle" /\ InsideWrite = {})
              => /\ ENABLED LockEnter(c, "list", NoFile)
                 /\ \A id \in Uuids : ENABLED LockEnter(c, "find_by_id", [NoFile EXCEPT !.id = id])

\* both threads are inside find_by_id / list at once, on a map with an entry
C15_Witness ==
    /\ callers[1].pc = "find_by_id"
    /\ callers[2].pc = "list"
    /\ lock.readers = {1, 2}
    /\ storage # EmptyStorage

\* C16: when two callers take the same entity from find_by_id, each apply
\* their own set_slice and each call update, the last update wins: once both
\* updates are done, the content returned for the id is the content produced
\* by the caller whose update came last, in every interleaving.
C16_LastUpdateWins ==
    \A id \in DOMAIN storage :
        (\A c \in Callers :
            callers[c].phase = "updated" /\ callers[c].pc = "idle" /\ callers[c].file.id = id)
            => LET r == get_code_file(Fs, storage, id)
               IN  r.res = "Ok" /\ r.text = written[id]

\* C17: set_content is atomic with respect to reads: whenever a caller reads
\* through its copy of the entity, the view it reads is a mapping of the file
\* as it is now, with the file's length; it never reads a previous mapping
\* with the old length after the file was truncated or rewritten.
C17_SetContentAtomic ==
    [][ \A c \in Callers :
          ConcGetContent(c)
              => LET src == callers[c].file.source
                 IN  src.mmap.some
                        => /\ src.mmap.ino = dir[src.path]
                           /\ src.mmap.len = Len(inodes[src.mmap.ino])
                           /\ last'.res = "Ok"
      ]_vars

(***************************************************************************)
(* Failures, listing and creation.                                         *)
(***************************************************************************)
\* the variants of ApplicationError
ApplicationErrors == {"FileNotFound", "IoError", "ParseError", "InvalidRange"}

\* C18: every failure of a use-case operation comes back to the caller as a
\* typed ApplicationError; no call is aborted by a panic (or a signal).
C18_TypedFailures ==
    last.res \in {"Ok"} \cup ApplicationErrors

\* C19: list() returns exactly one entity for each id in the map and nothing
\* else, and find_by_id and list leave the map and every file as they were.
C19_ListAndReadsFrame ==
    /\ [](LET r == repo_list(Fs, storage)
          IN  /\ r.res = "Ok"
              /\ Len(r.files) = Cardinality(DOMAIN storage)
              /\ \A k \in DOMAIN storage :
                    \E i \in 1..Len(r.files) :
                        r.files[i].id = k /\ r.files[i].name = storage[k].name
              /\ \A i \in 1..Len(r.files) : contains_key(storage, r.files[i].id))
    /\ [][ last'.op \in {"find_by_id", "list"}
              => storage' = storage /\ dir' = dir /\ inodes' = inodes
          ]_vars

\* C20: create_code_file(name) answers with the requested name and the whole
\* content of the new, empty file as the viewport (start_index 0, end_index 0,
\* no content), and get_code_file(returned id) then answers the same.
C20_CreateResponse ==
    \A n \in Names :
        (Running /\ nextId <= MaxIds /\ CanWrite(Fs, PathOf(n)))
            => LET r == create_code_file(Fs, storage, nextId, n)
               IN  /\ r.resp = [res |-> "Ok", err |-> <<>>, id |-> nextId, name |-> n,
                                text |-> <<>>, start_index |-> 0, end_index |-> 0]
                   /\ get_code_file(r.fs, r.storage, nextId) = r.resp

\* a second entity was created on a name whose file held a character
C20_Witness ==
    /\ last.op = "create_code_file"
    /\ last.res = "Ok"
    /\ last.id = 2 /\ last.name = "f1" /\ last.text = <<>> /\ last.end_index = 0
    /\ DOMAIN storage = {1, 2}
    /\ storage[1].name = "f1"
    /\ storage[1].source.mmap.len = 1

(***************************************************************************)
(* Deletion.                                                               *)
(***************************************************************************)
\* C21: delete_file() on a source whose file is absent fails with an I/O
\* error and changes nothing; on a source whose file is present it succeeds,
\* leaves that file absent and leaves every other file as it was.
C21_DeleteFile ==
    \A h \in Handles :
        LET r == delete_file(Fs, srcs[h])
        IN  IF File_exists(Fs, srcs[h].path)
            THEN /\ r.res = "Ok"
                 /\ ~File_exists(r.fs, srcs[h].path)
                 /\ \A p \in Paths \ {srcs[h].path} : r.fs.dir[p] = dir[p]
                 /\ r.fs.inodes = inodes
            ELSE /\ r.res = "IoError"
                 /\ r.fs = Fs

\* a second delete_file failed on the file that a mapped source had deleted
C21_Witness ==
    /\ last.op = "delete_file"
    /\ last.res = "IoError"
    /\ srcs[1].mmap.some
    /\ ~File_exists(Fs, srcs[1].path)

\* C22: delete_code_file(id) removes the catalogue entry and the file, or
\* neither: when it returns Ok the id has left the repository, the other
\* entries are as before and no file is left at the entity's path; when it
\* does not return Ok (FileNotFound, IoError, or no return at all) the
\* repository map and the file system are as they were before the call.
C22_DeleteBothOrNeither ==
    \A id \in Uuids :
        LET r == delete_code_file(Fs, storage, id)
        IN  IF r.res = "Ok"
            THEN /\ id \in DOMAIN storage
                 /\ DOMAIN r.storage = DOMAIN storage \ {id}
                 /\ \A k \in DOMAIN r.storage : r.storage[k] = storage[k]
                 /\ ~File_exists(r.fs, storage[id].source.path)
            ELSE /\ r.storage = storage
                 /\ r.fs = Fs

\* delete_code_file has returned Ok on the only entity: the repository is
\* empty and no file is left
C22_Witness ==
    /\ last.op = "delete_code_file"
    /\ last.res = "Ok"
    /\ nextId > 1
    /\ DOMAIN storage = {}
    /\ \A p \in Paths : ~File_exists(Fs, p)

\* C23: after any sequence of create_code_file, update_code_file and
\* delete_code_file calls every entity in the repository has a file behind
\* its path, and get_code_file, update_code_file and delete_code_file on a
\* present id return Ok.
C23_PresentEntityHasMedium ==
    \A id \in DOMAIN storage :
        /\ File_exists(Fs, storage[id].source.path)
        /\ get_code_file(Fs, storage, id).res = "Ok"
        /\ update_code_file(Fs, storage, id, 0, 0, <<>>).res = "Ok"
        /\ delete_code_file(Fs, storage, id).res = "Ok"

\* C24: the viewport returned by get_code_file is a valid range for a write
\* on the same entity: with e the end_index that get_code_file(id) returns,
\* update_code_file(id, 0, e, c) returns Ok and leaves c as the content, and
\* update_code_file(id, e, e, c) returns Ok and leaves the former content
\* followed by c.
C24_ViewportIsWriteRange ==
    [][\A id \in DOMAIN storage, s \in Args, e \in Args, c \in Texts :
          LET g == get_code_file(Fs, storage, id)
          IN  ( /\ g.res = "Ok"
                /\ e = g.end_index
                /\ s \in {0, e}
                /\ UpdateCodeFile(id, s, e, c) )
              => /\ last'.res = "Ok"
                 /\ ViewOf([dir |-> dir', inodes |-> inodes'], storage', id)
                       = IF s = 0 THEN c ELSE g.text \o c]_vars

(***************************************************************************)
(* The chunked draft.                                                      *)
(***************************************************************************)
\* the consecutive pieces of n characters of a text
RECURSIVE Pieces(_, _)
Pieces(content, n) ==
    IF Len(content) <= n THEN (IF content = <<>> THEN <<>> ELSE <<content>>)
    ELSE <<SubSeq(content, 1, n)>> \o Pieces(SubSeq(content, n + 1, Len(content)), n)

\* C25: new_with_chunk_len(name, content, n) with n >= 1 keeps every chunk
\* of the content: it returns a file with ceil(len(content)/n) parts, each
\* non-empty and of length at most n, and the parts' contents are the
\* consecutive n-length pieces of the content, equal pieces included.
C25_KeepsEveryChunk ==
    (draft.op = "new_with_chunk_len" /\ draft.chunk_len >= 1)
        => LET n      == draft.chunk_len
               pieces == Pieces(draft.content, n)
               stored == draft.file.content
           IN  /\ draft.res = "Ok"
               /\ Cardinality(DOMAIN stored) = (Len(draft.content) + n - 1) \div n
               /\ Cardinality(DOMAIN stored) = Len(pieces)
               /\ \A h \in DOMAIN stored :
                     /\ stored[h].content # <<>>
                     /\ Len(stored[h].content) <= n
               /\ {stored[h].content : h \in DOMAIN stored}
                     = {pieces[k] : k \in DOMAIN pieces}

\* every FilePartialContent the running test holds
HeldParts ==
    {draft.parts[i] : i \in {j \in Slots : draft.parts[j].some}}
        \cup (IF draft.merged.some THEN {draft.merged} ELSE {})
        \cup (IF draft.file.some
              THEN {draft.file.content[h] : h \in DOMAIN draft.file.content}
              ELSE {})

\* C26: the stored hash of a FilePartialContent equals evaluate_hash of its
\* current content after new, after set_content and after merge; merge(a, b)
\* yields a part whose content is a's content followed by b's content and
\* leaves a and b as they were.
C26_HashFollowsContent ==
    /\ [](\A part \in HeldParts : get_hash(part) = evaluate_hash(part.content))
    /\ [][PartMerge =>
            /\ draft'.merged.content = draft.parts[1].content \o draft.parts[2].content
            /\ draft'.merged.hash = evaluate_hash(draft'.merged.content)
            /\ draft'.parts = draft.parts]_vars

\* a part was given new content after it had been merged with another one:
\* the merged part still holds the two former contents
C26_Witness ==
    /\ draft.op = "set_content"
    /\ draft.merged.some
    /\ draft.merged.content # <<>>
    /\ draft.merged.content # draft.parts[1].content \o draft.parts[2].content
    /\ \E i \in Slots : draft.parts[i].content # <<>>

=============================================================================
